---- MODULE Spec2Model ----
(***************************************************************************)
(* The quantumfuck virtual machine of src/qf.py: class QF, its constructor, *)
(* its parse() dispatch loop and measure().  regex is False and the debug  *)
(* log is not kept.                                                        *)
(*                                                                         *)
(* Program positions are 0-based as in the source: the character the       *)
(* source reads as code[i] is code[i + 1] of the TLA+ sequence.            *)
(*                                                                         *)
(* The amplitude vector of the backend is kept exactly.  An amplitude is   *)
(* a tuple <<a, b, c, d>> of integers that stands for                      *)
(* a + b*w + c*w^2 + d*w^3 with w = exp(i*pi/4), and a state is a function *)
(* from basis index to amplitude, read up to a positive real factor (the   *)
(* backend's unit vector is v / |v|).  Qubit q is bit q of the index.      *)
(* The histories hold references: objs[1] is the QuantumState the VM       *)
(* mutates in place, and state.copy() adds an object to objs.              *)
(***************************************************************************)
EXTENDS Integers, Sequences, FiniteSets, TLC

\* Largest register the model constructs.
MaxQubits == 3
\* Characters handed to parse over the life of a VM.
MaxCode == 2
\* Loop closes and jumps, the commands that can move i back, are followed until
\* Command History holds this many entries.
MaxHist == 3
\* parse calls followed on one VM.
MaxCalls == 2

VARIABLES
    num_qubits,       \* self.num_qubits
    pointer,          \* self.pointer
    objs,             \* the QuantumState objects: objs[1] is self.state, the others are copies
    state_history,    \* self.state_history: references (indices of objs)
    command_history,  \* self.command_history
    circuit,          \* self.circuit, the gate buffer
    circuit_all,      \* self.circuit_all, the merged gate log
    pc,               \* "idle" (no call running), "loop" (in the while loop), "raised"
    code,             \* local code of the running parse call
    i,                \* local i
    loop_stack,       \* local loop_stack
    h,                \* local h
    calls,            \* parse calls started on this VM
    parsed,           \* characters handed to parse so far
    run,              \* commands dispatched by the running call
    last              \* what the last iteration of the while loop did

vars == <<num_qubits, pointer, objs, state_history, command_history, circuit,
          circuit_all, pc, code, i, loop_stack, h, calls, parsed, run, last>>

vm == <<num_qubits, pointer, objs, state_history, command_history, circuit, circuit_all>>

----------------------------------------------------------------------------
\* Characters

Digits == {"0", "1", "2", "3", "4", "5", "6", "7", "8", "9"}

DigitVal(c) ==
    CASE c = "0" -> 0 [] c = "1" -> 1 [] c = "2" -> 2 [] c = "3" -> 3 [] c = "4" -> 4
      [] c = "5" -> 5 [] c = "6" -> 6 [] c = "7" -> 7 [] c = "8" -> 8 [] c = "9" -> 9

\* The commands whose branch queues a gate (the list of line 139).
GateClass == {"+", "H", "~", "T", "@", "C", ".", "M", "#", "N", "?"}

\* The commands the if/elif chain of parse recognizes.
Recognized == {">", "<", "[", "]", ";", ",", ":", "!", "*"} \cup GateClass

\* The characters programs are drawn from: one command per branch of the
\* dispatch chain, a digit, and a character that is no command.
Alphabet == {">", "<", "[", "]", ";", ",", ":", ".", "+", "~", "@", "#", "?", "!", "*",
             "2", "X"}

RECURSIVE SeqsUpTo(_, _)
SeqsUpTo(S, n) ==
    IF n = 0 THEN {<<>>}
    ELSE LET shorter == SeqsUpTo(S, n - 1)
         IN  shorter \cup {Append(s, c) : s \in {t \in shorter : Len(t) = n - 1}, c \in S}

\* The programs of at most n characters.
Programs(n) == SeqsUpTo(Alphabet, n)

----------------------------------------------------------------------------
\* The backend: amplitudes and states

RECURSIVE Pow2(_)
Pow2(n) == IF n = 0 THEN 1 ELSE 2 * Pow2(n - 1)

Bit(x, q) == (x \div Pow2(q)) % 2
Flip(x, q) == IF Bit(x, q) = 0 THEN x + Pow2(q) ELSE x - Pow2(q)

AZero == <<0, 0, 0, 0>>
AOne == <<1, 0, 0, 0>>
AAdd(u, v) == <<u[1] + v[1], u[2] + v[2], u[3] + v[3], u[4] + v[4]>>
ANeg(u) == <<0 - u[1], 0 - u[2], 0 - u[3], 0 - u[4]>>
ASub(u, v) == AAdd(u, ANeg(v))
\* times w = exp(i*pi/4), and times i = w^2
AMulW(u) == <<0 - u[4], u[1], u[2], u[3]>>
AMulI(u) == AMulW(AMulW(u))

\* |u|^2 = s + t*sqrt(2), as <<s, t>>
ANorm2(u) ==
    <<u[1] * u[1] + u[2] * u[2] + u[3] * u[3] + u[4] * u[4],
      u[1] * u[2] + u[2] * u[3] + u[3] * u[4] - u[4] * u[1]>>

Indices(n) == 0 .. (Pow2(n) - 1)

\* QuantumState.set_zero_state, and the load of a basis vector (lines 20-23)
BasisState(n, b) == [x \in Indices(n) |-> IF x = b THEN AOne ELSE AZero]
ZeroState(n) == BasisState(n, 0)

AllEven(v) == \A x \in DOMAIN v : \A k \in 1 .. 4 : v[x][k] % 2 = 0
Halve(v) == [x \in DOMAIN v |-> <<v[x][1] \div 2, v[x][2] \div 2, v[x][3] \div 2, v[x][4] \div 2>>]

\* The representative of a state: common factors of 2 are dropped.
RECURSIVE Reduce(_)
Reduce(v) == IF AllEven(v) /\ \E x \in DOMAIN v : v[x] # AZero THEN Reduce(Halve(v)) ELSE v

GateH(v, q) ==
    Reduce([x \in DOMAIN v |->
        IF Bit(x, q) = 0 THEN AAdd(v[x], v[Flip(x, q)]) ELSE ASub(v[Flip(x, q)], v[x])])
GateT(v, q) == [x \in DOMAIN v |-> IF Bit(x, q) = 1 THEN AMulW(v[x]) ELSE v[x]]
GateX(v, q) == [x \in DOMAIN v |-> v[Flip(x, q)]]
GateZ(v, q) == [x \in DOMAIN v |-> IF Bit(x, q) = 1 THEN ANeg(v[x]) ELSE v[x]]
GateY(v, q) ==
    [x \in DOMAIN v |->
        IF Bit(x, q) = 1 THEN AMulI(v[Flip(x, q)]) ELSE ANeg(AMulI(v[Flip(x, q)]))]
GateCNOT(v, c, t) == [x \in DOMAIN v |-> IF Bit(x, c) = 1 THEN v[Flip(x, t)] ELSE v[x]]
Project(v, q, o) == [x \in DOMAIN v |-> IF Bit(x, q) = o THEN v[x] ELSE AZero]

\* Component c of the weight, summed over the basis states 0 .. x.
RECURSIVE WeightUpTo(_, _, _, _, _)
WeightUpTo(v, q, b, x, c) ==
    IF x < 0 THEN 0
    ELSE WeightUpTo(v, q, b, x - 1, c) + (IF Bit(x, q) = b THEN ANorm2(v[x])[c] ELSE 0)

\* The weight of the basis states whose bit q is b, as <<s, t>> for s + t*sqrt(2).
Weight(v, q, b) ==
    <<WeightUpTo(v, q, b, Cardinality(DOMAIN v) - 1, 1),
      WeightUpTo(v, q, b, Cardinality(DOMAIN v) - 1, 2)>>

\* QuantumState.set_Haar_random_state: the draws followed, both of full support.
HaarSamples(n) ==
    {[x \in Indices(n) |-> <<1 + x, 0, 0, 0>>], [x \in Indices(n) |-> <<1, 0, 0 - 1 - x, 0>>]}

\* A queued operation.  control is -1 for a one-qubit operation.
Op(g, t, c) == [gate |-> g, target |-> t, control |-> c]

\* The states one operation can leave.  Measurement projects on an outcome of
\* nonzero weight; DepolarizingNoise applies nothing or one of X, Y, Z.  A CNOT
\* whose control is its target is not defined by the source: either reading
\* of it (the control fires or it does not) can be the outcome.
Apply(op, v) ==
    CASE op.gate = "H" -> {GateH(v, op.target)}
      [] op.gate = "T" -> {GateT(v, op.target)}
      [] op.gate = "CNOT" ->
            IF op.control # op.target THEN {GateCNOT(v, op.control, op.target)}
            ELSE {v, GateX(v, op.target)}
      [] op.gate = "Measurement" ->
            {Reduce(Project(v, op.target, o)) : o \in {b \in {0, 1} : Weight(v, op.target, b) # <<0, 0>>}}
      [] op.gate = "DepolarizingNoise" ->
            {v, GateX(v, op.target), GateY(v, op.target), GateZ(v, op.target)}

\* QuantumCircuit.update_quantum_state: the gates in order.
RECURSIVE UpdateQuantumState(_, _)
UpdateQuantumState(circ, v) ==
    IF circ = <<>> THEN {v}
    ELSE UNION {UpdateQuantumState(Tail(circ), w) : w \in Apply(Head(circ), v)}

----------------------------------------------------------------------------
\* QF.measure

\* <Z_p> as a fraction num / den of numbers s + t*sqrt(2)
ExpectationZ(v, p) ==
    LET n0 == Weight(v, p, 0)
        n1 == Weight(v, p, 1)
    IN  [num |-> <<n0[1] - n1[1], n0[2] - n1[2]>>, den |-> <<n0[1] + n1[1], n0[2] + n1[2]>>]

ProbOfUp(e) ==
    [num |-> <<e.den[1] + e.num[1], e.den[2] + e.num[2]>>, den |-> <<2 * e.den[1], 2 * e.den[2]>>]

\* prob = (1.0 - e) * 0.5
ProbOf(e) ==
    [num |-> <<e.den[1] - e.num[1], e.den[2] - e.num[2]>>, den |-> <<2 * e.den[1], 2 * e.den[2]>>]

MeasureProb(v, p) == ProbOf(ExpectationZ(v, p))

ProbIsZero(prob) == prob.num = <<0, 0>>
ProbIsOne(prob) == prob.num = prob.den

\* result = 0 if prob > np.random.rand() else 1, the sample being in [0, 1):
\* 0 needs a sample below prob, 1 needs a sample at or above it.
MeasureResults(v, p) ==
    {r \in {0, 1} : /\ r = 0 => ~ProbIsZero(MeasureProb(v, p))
                    /\ r = 1 => ~ProbIsOne(MeasureProb(v, p))}

----------------------------------------------------------------------------
\* QF.__init__

\* The record of one iteration of the while loop: the command and its position,
\* the depth of the loop stack before it, the calls of measure() it made with the
\* qubit, prob and result of the call, the value its branch assigned to i (-1
\* when the branch assigned none), and the digits it skipped.
NoDispatch ==
    [cmd |-> "", pos |-> -1, depth |-> 0, measures |-> 0, qubit |-> -1,
     prob |-> [num |-> <<0, 0>>, den |-> <<0, 0>>], result |-> -1, jump |-> -1, digits |-> 0]

\* The commands a call has dispatched so far, and the VM as the call found it.
NoRun(p, st, sh, ch, ca) ==
    [iterations |-> 0, recognized |-> 0, gates |-> 0,
     start |-> [pointer |-> p, state |-> st, state_history |-> sh, command_history |-> ch,
                circuit_all |-> ca]]

\* Lines 14-23: init is None or a binary string, here "0...0" or "1...1": the
\* state is the basis state of index int(init, 2) (index 0 for None).
InitIndices(n) == {0, Pow2(n) - 1}

Init ==
    /\ num_qubits \in 1 .. MaxQubits
    /\ \E b \in InitIndices(num_qubits) : objs = <<BasisState(num_qubits, b)>>
    /\ pointer = 0
    /\ circuit = <<>>
    /\ circuit_all = <<>>
    /\ state_history = <<>>
    /\ command_history = <<>>
    /\ pc = "idle"
    /\ code = <<>>
    /\ i = 0
    /\ loop_stack = <<>>
    /\ h = 0
    /\ calls = 0
    /\ parsed = 0
    /\ run = NoRun(pointer, objs[1], state_history, command_history, circuit_all)
    /\ last = NoDispatch

----------------------------------------------------------------------------
\* QF.parse

\* Lines 58-62: the locals of a call.  regex is False: code is code0.
ParseStart ==
    /\ pc = "idle"
    /\ calls < MaxCalls
    /\ \E code0 \in Programs(MaxCode - parsed) :
          /\ code' = code0
          /\ parsed' = parsed + Len(code0)
    /\ loop_stack' = <<>>
    /\ i' = 0
    /\ h' = 0
    /\ pc' = "loop"
    /\ calls' = calls + 1
    /\ run' = NoRun(pointer, objs[1], state_history, command_history, circuit_all)
    /\ last' = NoDispatch
    /\ UNCHANGED vm

\* Lines 64 and 148-154: the loop ends and the four fields are returned.
ParseReturn ==
    /\ pc = "loop"
    /\ i >= Len(code)
    /\ pc' = "idle"
    /\ UNCHANGED <<vm, code, i, loop_stack, h, calls, parsed, run, last>>

\* Lines 64-65: the loop reads command = code[i].
command == code[i + 1]

Fetch(cs) ==
    /\ pc = "loop"
    /\ i < Len(code)
    /\ command \in cs
    /\ command \in {"]", "*"} => Len(command_history) < MaxHist

\* One more dispatch of c: counted as recognized when the if/elif chain has a
\* branch for it, as gate-class when line 139 lists it.
Count(c) ==
    [run EXCEPT !.iterations = @ + 1,
                !.recognized = @ + (IF c \in Recognized THEN 1 ELSE 0),
                !.gates = @ + (IF c \in GateClass THEN 1 ELSE 0)]

Seen(seen) == [seen EXCEPT !.cmd = command, !.pos = i, !.depth = Len(loop_stack)]

\* A call of measure() that returned r.
Measured(r) ==
    [NoDispatch EXCEPT !.measures = 1, !.qubit = pointer,
                       !.prob = MeasureProb(objs[1], pointer), !.result = r]

RecordCommandDropsJump(hist, c) == IF c = "*" THEN hist ELSE Append(hist, c)

\* Line 135
RecordCommand(hist, c) == Append(hist, c)

AdvanceStays(k) == k

\* Line 146
Advance(k) == k + 1

\* Lines 134-146 for a command outside the list of line 139; k is i as the
\* command's branch left it.
Record(k, seen) ==
    /\ command_history' = RecordCommand(command_history, command)
    /\ i' = Advance(k)
    /\ run' = Count(command)
    /\ last' = Seen(seen)
    /\ UNCHANGED <<num_qubits, pc, code, calls, parsed, circuit, circuit_all, state_history, h>>

FlushKeepsBuffer(queued) ==
    \E w \in UpdateQuantumState(queued, objs[1]) :
        /\ objs' = Append([objs EXCEPT ![1] = w], w)
        /\ state_history' = Append(state_history, Len(objs) + 1)
        /\ circuit_all' = circuit_all \o queued
        /\ circuit' = queued
        /\ h' = h + 1

FlushSnapshotsFirst(queued) ==
    \E w \in UpdateQuantumState(queued, objs[1]) :
        /\ objs' = Append([objs EXCEPT ![1] = w], objs[1])
        /\ state_history' = Append(state_history, Len(objs) + 1)
        /\ circuit_all' = circuit_all \o queued
        /\ circuit' = <<>>
        /\ h' = h + 1

FlushAppendsReference(queued) ==
    \E w \in UpdateQuantumState(queued, objs[1]) :
        /\ objs' = [objs EXCEPT ![1] = w]
        /\ state_history' = Append(state_history, 1)
        /\ circuit_all' = circuit_all \o queued
        /\ circuit' = <<>>
        /\ h' = h + 1

\* Lines 139-144: the buffer, holding queued, is applied to the state, merged
\* into circuit_all and replaced by an empty one; a copy of the state is appended.
Flush(queued) ==
    \E w \in UpdateQuantumState(queued, objs[1]) :
        /\ objs' = Append([objs EXCEPT ![1] = w], w)
        /\ state_history' = Append(state_history, Len(objs) + 1)
        /\ circuit_all' = circuit_all \o queued
        /\ circuit' = <<>>
        /\ h' = h + 1

\* Lines 134-146 for a command of the list of line 139.
RecordGate(k, queued, seen) ==
    /\ command_history' = RecordCommand(command_history, command)
    /\ Flush(queued)
    /\ i' = Advance(k)
    /\ run' = Count(command)
    /\ last' = Seen(seen)
    /\ UNCHANGED <<num_qubits, pc, code, calls, parsed, pointer, loop_stack>>

RightNoWrap(p, n) == p + 1

\* Lines 68-70
Right(p, n) == (p + 1) % n

MoveRight ==
    /\ Fetch({">"})
    /\ pointer' = Right(pointer, num_qubits)
    /\ Record(i, NoDispatch)
    /\ UNCHANGED <<objs, loop_stack>>

LeftNoWrap(p, n) == IF p = 0 THEN 0 ELSE p - 1

\* Lines 71-73
Left(p, n) == (p - 1) % n

MoveLeft ==
    /\ Fetch({"<"})
    /\ pointer' = Left(pointer, num_qubits)
    /\ Record(i, NoDispatch)
    /\ UNCHANGED <<objs, loop_stack>>

LoopOpenPushesNext ==
    /\ Fetch({"["})
    /\ loop_stack' = Append(loop_stack, i + 1)
    /\ Record(i, NoDispatch)
    /\ UNCHANGED <<objs, pointer>>

\* Lines 74-76
LoopOpen ==
    /\ Fetch({"["})
    /\ loop_stack' = Append(loop_stack, i)
    /\ Record(i, NoDispatch)
    /\ UNCHANGED <<objs, pointer>>

CloseStackAlwaysPops(stack, r) == SubSeq(stack, 1, Len(stack) - 1)
CloseIAtOpen(stack, k, r) == IF r = 0 THEN k ELSE stack[Len(stack)] - 1

\* Lines 80-83: the stack and i after the branch on the measured result.
CloseStack(stack, r) == IF r = 0 THEN SubSeq(stack, 1, Len(stack) - 1) ELSE stack
CloseI(stack, k, r) == IF r = 0 THEN k ELSE stack[Len(stack)]

\* Lines 77-83 with an entry on the stack.
LoopClose ==
    /\ Fetch({"]"})
    /\ loop_stack # <<>>
    /\ \E r \in MeasureResults(objs[1], pointer) :
          /\ loop_stack' = CloseStack(loop_stack, r)
          /\ Record(CloseI(loop_stack, i, r),
                    [Measured(r) EXCEPT !.jump = IF r = 0 THEN -1 ELSE CloseI(loop_stack, i, r)])
    /\ UNCHANGED <<objs, pointer>>

\* Lines 77-83 with an empty stack: measure() is called, then loop_stack.pop()
\* (result 0) or loop_stack[-1] (result 1) raises IndexError out of parse.
LoopCloseEmpty ==
    /\ Fetch({"]"})
    /\ loop_stack = <<>>
    /\ \E r \in MeasureResults(objs[1], pointer) :
          last' = Seen(Measured(r))
    /\ pc' = "raised"
    /\ run' = Count(command)
    /\ UNCHANGED <<vm, code, i, loop_stack, h, calls, parsed>>

\* Lines 84-86
HaarReset ==
    /\ Fetch({";"})
    /\ \E w \in HaarSamples(num_qubits) : objs' = [objs EXCEPT ![1] = w]
    /\ Record(i, NoDispatch)
    /\ UNCHANGED <<pointer, loop_stack>>

\* Lines 87-89
ZeroReset ==
    /\ Fetch({","})
    /\ objs' = [objs EXCEPT ![1] = ZeroState(num_qubits)]
    /\ Record(i, NoDispatch)
    /\ UNCHANGED <<pointer, loop_stack>>

MeasureDiscardCollapses ==
    /\ Fetch({":"})
    /\ \E r \in MeasureResults(objs[1], pointer) :
          /\ objs' = [objs EXCEPT ![1] = Reduce(Project(objs[1], pointer, 1 - r))]
          /\ Record(i, Measured(r))
    /\ UNCHANGED <<pointer, loop_stack>>

\* Lines 90-92
MeasureDiscard ==
    /\ Fetch({":"})
    /\ \E r \in MeasureResults(objs[1], pointer) :
          Record(i, Measured(r))
    /\ UNCHANGED <<objs, pointer, loop_stack>>

\* Lines 93-95
MeasurementGate ==
    /\ Fetch({".", "M"})
    /\ RecordGate(i, Append(circuit, Op("Measurement", pointer, -1)), NoDispatch)

\* Lines 96-98
Hadamard ==
    /\ Fetch({"+", "H"})
    /\ RecordGate(i, Append(circuit, Op("H", pointer, -1)), NoDispatch)

\* Lines 99-101
TGate ==
    /\ Fetch({"~", "T"})
    /\ RecordGate(i, Append(circuit, Op("T", pointer, -1)), NoDispatch)

\* re.match(r"\d+", code[k+1:]): the length of the run of digits after position k
RECURSIVE DigitRun(_, _)
DigitRun(prog, k) ==
    IF k + 1 < Len(prog) /\ prog[k + 2] \in Digits THEN 1 + DigitRun(prog, k + 1) ELSE 0

\* int() of the len digits after position k
RECURSIVE DigitsValue(_, _, _)
DigitsValue(prog, k, len) ==
    IF len = 0 THEN 0
    ELSE 10 * DigitsValue(prog, k, len - 1) + DigitVal(prog[k + 1 + len])

TargetBitDefaultsToControl(prog, k, p, n) ==
    IF DigitRun(prog, k) > 0
    THEN (p + DigitsValue(prog, k, DigitRun(prog, k))) % n
    ELSE p % n

\* Lines 105-110: target_bit
TargetBit(prog, k, p, n) ==
    IF DigitRun(prog, k) > 0
    THEN (p + DigitsValue(prog, k, DigitRun(prog, k))) % n
    ELSE (p + 1) % n

SkipNoDigits(prog, k) == k

\* Lines 106-108: i after the digits are skipped
SkipDigits(prog, k) == k + DigitRun(prog, k)

\* Lines 102-111
CNOT ==
    /\ Fetch({"@", "C"})
    /\ RecordGate(SkipDigits(code, i),
                  Append(circuit, Op("CNOT", TargetBit(code, i, pointer, num_qubits), pointer)),
                  [NoDispatch EXCEPT !.digits = DigitRun(code, i)])

\* Lines 112-115
Noise ==
    /\ Fetch({"#", "N"})
    /\ RecordGate(i, Append(circuit, Op("DepolarizingNoise", pointer, -1)), NoDispatch)

\* Lines 116-121
RandomGate ==
    /\ Fetch({"?"})
    /\ \E g \in {"H", "T"} : RecordGate(i, Append(circuit, Op(g, pointer, -1)), NoDispatch)

\* Lines 122-124: random.randint(0, num_qubits - 1)
RandomPointer ==
    /\ Fetch({"!"})
    /\ \E q \in 0 .. (num_qubits - 1) : pointer' = q
    /\ Record(i, NoDispatch)
    /\ UNCHANGED <<objs, loop_stack>>

\* Lines 125-127: random.randint(0, len(code) - 1)
RandomJump ==
    /\ Fetch({"*"})
    /\ \E k \in 0 .. (Len(code) - 1) : Record(k, [NoDispatch EXCEPT !.jump = k])
    /\ UNCHANGED <<objs, pointer, loop_stack>>

\* Lines 128-132
Invalid ==
    /\ Fetch(Alphabet \ Recognized)
    /\ i' = i + 1
    /\ last' = Seen(NoDispatch)
    /\ run' = Count(command)
    /\ UNCHANGED <<vm, pc, code, loop_stack, h, calls, parsed>>

Next ==
    \/ ParseStart
    \/ ParseReturn
    \/ MoveRight
    \/ MoveLeft
    \/ LoopOpen
    \/ LoopClose
    \/ LoopCloseEmpty
    \/ HaarReset
    \/ ZeroReset
    \/ MeasureDiscard
    \/ MeasurementGate
    \/ Hadamard
    \/ TGate
    \/ CNOT
    \/ Noise
    \/ RandomGate
    \/ RandomPointer
    \/ RandomJump
    \/ Invalid

Spec == Init /\ [][Next]_vars

\* parse is one sequential loop: while a call is running, its next iteration
\* (or its return) is taken.
Iterate == pc = "loop" /\ Next

FairSpec == Spec /\ WF_vars(Iterate)

----------------------------------------------------------------------------
\* Properties

Top(stack) == stack[Len(stack)]
Occurrences(seq, c) == Cardinality({k \in 1 .. Len(seq) : seq[k] = c})
OnlyOf(seq, cs) == \A k \in 1 .. Len(seq) : seq[k] \in cs
Returned == pc = "idle" /\ calls > 0
CallStarts == pc = "loop" /\ last = NoDispatch

RECURSIVE Decimal(_)
Decimal(ds) ==
    IF ds = <<>> THEN 0
    ELSE 10 * Decimal(SubSeq(ds, 1, Len(ds) - 1)) + DigitVal(ds[Len(ds)])

\* C1: a "]" dispatched while the loop stack is empty does not raise: no
\* measurement is requested, the loop stack is not touched, and the loop goes on
\* with the command after the "]".
UnmatchedCloseIsSkipped ==
    [][(Fetch({"]"}) /\ loop_stack = <<>>)
          => (pc' = "loop" /\ last'.measures = 0 /\ loop_stack' = loop_stack /\ i' = i + 1)]_vars

\* C2: when the first parse call on a VM returns, Command History is as long as
\* the number of recognized commands the call dispatched, repeats included, and
\* State History as long as the number of gate-class commands it dispatched.
HistoryLengthsCountDispatches ==
    (Returned /\ calls = 1)
        => (Len(command_history) = run.recognized /\ Len(state_history) = run.gates)

HistoryCountsRepeats ==
    /\ Returned
    /\ calls = 1
    /\ run.recognized > Len(code)
    /\ run.gates > 0
    /\ "*" \in {command_history[k] : k \in 1 .. Len(command_history)}

\* C3: at the start of every parse call, a later call on the same VM included,
\* Loop Stack, Command History, State History and Gate Buffer are empty, and the
\* histories a call returns hold only the entries of that call.
FreshPerCall ==
    /\ CallStarts
          => (loop_stack = <<>> /\ command_history = <<>> /\ state_history = <<>> /\ circuit = <<>>)
    /\ Returned
          => (Len(command_history) = run.recognized /\ Len(state_history) = run.gates)

\* C4: a "]" dispatched with an entry on the loop stack calls measure() once, on
\* qubit p; on result 0 the top entry is popped and i is not reassigned; on
\* result 1 the stack is left as it is and i is assigned the top entry.
MatchedClose ==
    [][(Fetch({"]"}) /\ loop_stack # <<>>)
          => /\ last'.measures = 1
             /\ last'.qubit = pointer
             /\ last'.result \in {0, 1}
             /\ last'.result = 0
                   => /\ loop_stack' = SubSeq(loop_stack, 1, Len(loop_stack) - 1)
                      /\ last'.jump = -1
                      /\ i' = i + 1
             /\ last'.result = 1
                   => /\ loop_stack' = loop_stack
                      /\ last'.jump = Top(loop_stack)]_vars

CloseRepeated ==
    /\ last.cmd = "]"
    /\ last.depth > 0
    /\ last.result = 1
    /\ Len(loop_stack) = last.depth
    /\ last.jump = Top(loop_stack)

\* C5: after a "*" i is the drawn position, a position of the program: the next
\* command dispatched is the one drawn, and the "*" never ends the run.
JumpLandsOnDrawn ==
    [][Fetch({"*"}) => (i' = last'.jump /\ i' \in 0 .. (Len(code) - 1))]_vars

\* C6 as stated: a recognized command that does not reposition i advances it by
\* 1, and after a "]" that repeats the loop i is the top entry of the stack.
RepeatResumesAtOpen ==
    [][(Fetch(Recognized) /\ pc' = "loop")
          => CASE command = "]" /\ last'.result = 1 -> i' = Top(loop_stack)
               [] command = "*" -> TRUE
               [] command \in {"@", "C"} /\ DigitRun(code, i) > 0 -> TRUE
               [] OTHER -> i' = i + 1]_vars

\* C6 amended: a recognized command that does not reposition i advances it by
\* 1, and after a "]" that repeats the loop i is one past the top entry of the
\* stack: the increment of line 146 follows the assignment of line 83.
RepeatResumesAfterOpen ==
    [][(Fetch(Recognized) /\ pc' = "loop")
          => CASE command = "]" /\ last'.result = 1 -> i' = Top(loop_stack) + 1
               [] command = "*" -> TRUE
               [] command \in {"@", "C"} /\ DigitRun(code, i) > 0 -> TRUE
               [] OTHER -> i' = i + 1]_vars

LoopBodyReentered ==
    /\ pc = "loop"
    /\ last.cmd = "]"
    /\ last.result = 1
    /\ loop_stack # <<>>
    /\ i = Top(loop_stack) + 1
    /\ code[Top(loop_stack) + 1] = "["

\* C7: in the all-zero basis state measure() computes probability 1 for outcome
\* 0 and returns 0, whatever the register size and the pointer.
ZeroStateMeasuresZero ==
    (last.measures = 1 /\ objs[1] = ZeroState(num_qubits))
        => (ProbIsOne(last.prob) /\ last.result = 0)

\* C8: an unrecognized character changes nothing but i, which advances by 1, and
\* a program of unrecognized characters only returns an empty Command History
\* and an empty State History.
UnrecognizedIsSkipped ==
    /\ [][(pc = "loop" /\ i < Len(code) /\ command \notin Recognized)
              => /\ i' = i + 1
                 /\ UNCHANGED <<objs, pointer, loop_stack, circuit, circuit_all,
                                state_history, command_history>>]_vars
    /\ []((Returned /\ code # <<>> /\ OnlyOf(code, Alphabet \ Recognized))
              => (command_history = <<>> /\ state_history = <<>>))

\* C9: when a call with a program of ">" and "<" only returns, the pointer is
\* the pointer at the start of the call plus the number of ">" minus the number
\* of "<", modulo num_qubits, and the state, State History and the merged gate
\* log are as at the start of the call.
PointerMovesOnly ==
    (Returned /\ OnlyOf(code, {">", "<"}))
        => /\ pointer = (run.start.pointer + Occurrences(code, ">") - Occurrences(code, "<"))
                            % num_qubits
           /\ objs[1] = run.start.state
           /\ state_history = run.start.state_history
           /\ circuit_all = run.start.circuit_all

PointerWrapped ==
    /\ Returned
    /\ code # <<>>
    /\ OnlyOf(code, {">", "<"})
    /\ run.start.pointer # 0
    /\ Occurrences(code, "<") = 1
    /\ pointer = run.start.pointer - 1

\* C10: a "@" or "C" followed by a maximal run of k >= 1 digits of value d queues
\* one CNOT with control p and target (p + d) mod num_qubits, advances i by
\* k + 1 and appends the one command character to Command History.
CnotConsumesDigits ==
    [][(Fetch({"@", "C"}) /\ i + 1 < Len(code) /\ code[i + 2] \in Digits)
          => \E k \in 1 .. (Len(code) - i - 1) :
                /\ \A j \in 1 .. k : code[i + 1 + j] \in Digits
                /\ i + 1 + k = Len(code) \/ code[i + 2 + k] \notin Digits
                /\ i' = i + k + 1
                /\ circuit' = <<>>
                /\ circuit_all' =
                      Append(circuit_all,
                             Op("CNOT",
                                (pointer + Decimal(SubSeq(code, i + 2, i + 1 + k))) % num_qubits,
                                pointer))
                /\ command_history' = Append(command_history, command)]_vars

CnotSkippedDigit ==
    /\ last.cmd = "@"
    /\ last.digits = 1
    /\ i = last.pos + 2
    /\ num_qubits = 3
    /\ circuit_all # <<>>
    /\ circuit_all[Len(circuit_all)].target # circuit_all[Len(circuit_all)].control

\* C11: a "@" or "C" with no digit after it (another character follows, or it is
\* the last character) queues one CNOT with control p and target
\* (p + 1) mod num_qubits, advances i by exactly 1, so that the following
\* character is the next one fetched, and the dispatch completes: the loop goes
\* on and the command is appended to Command History.
CnotDefaultsToOne ==
    [][(Fetch({"@", "C"}) /\ (i + 1 = Len(code) \/ code[i + 2] \notin Digits))
          => /\ pc' = "loop"
             /\ i' = i + 1
             /\ circuit' = <<>>
             /\ circuit_all' =
                   Append(circuit_all, Op("CNOT", (pointer + 1) % num_qubits, pointer))
             /\ command_history' = Append(command_history, command)
             /\ last'.digits = 0]_vars

CnotBeforeNonDigit ==
    /\ pc = "loop"
    /\ last.cmd = "@"
    /\ last.pos = 0
    /\ Len(code) = 2
    /\ code[2] \notin Digits
    /\ i = 1
    /\ num_qubits = 3
    /\ circuit_all[Len(circuit_all)] = Op("CNOT", (pointer + 1) % num_qubits, pointer)

\* C12: in every reachable state, over any number of parse calls, the pointer
\* is an integer with 0 <= pointer < num_qubits; ">" at num_qubits - 1 moves it
\* to 0 and "<" at 0 moves it to num_qubits - 1.
PointerInRange ==
    /\ [](pointer \in 0 .. (num_qubits - 1))
    /\ [][/\ (Fetch({">"}) /\ pointer = num_qubits - 1) => pointer' = 0
          /\ (Fetch({"<"}) /\ pointer = 0) => pointer' = num_qubits - 1]_vars

PointerWrappedBothWays ==
    /\ Returned
    /\ calls = 2
    /\ num_qubits = 3
    /\ run.start.pointer = 2
    /\ code = <<">">>
    /\ pointer = 0
    /\ command_history = <<"<", ">">>

\* C14: State History is append-only and its snapshots are independent copies:
\* every step leaves State History as it is or appends exactly one entry, and
\* the value of an entry already appended stays the same under every later
\* command, the state-changing ones (gate-class, ";", ",") included.
StateHistoryAppendOnly ==
    [][/\ Len(state_history') \in {Len(state_history), Len(state_history) + 1}
       /\ \A k \in 1 .. Len(state_history) :
             objs'[state_history'[k]] = objs[state_history[k]]]_vars

SnapshotOutlivedState ==
    /\ Len(state_history) = 1
    /\ last.cmd \in {";", ","}
    /\ last.pos = 1
    /\ objs[state_history[1]] # objs[1]
    /\ objs[state_history[1]] # run.start.state

\* C15: ":" measures the qubit at the pointer and discards the result: the
\* state, the pointer, the loop stack, the Gate Buffer, the merged gate log and
\* State History stay as they are, and the only effects are ":" appended to
\* Command History and i advanced by 1; no call of measure(), by ":" or by "]",
\* changes the amplitude vector.
MeasureLeavesNoTrace ==
    [][/\ Fetch({":"})
            => /\ last'.measures = 1
               /\ last'.qubit = pointer
               /\ UNCHANGED <<objs, pointer, loop_stack, circuit, circuit_all, state_history>>
               /\ command_history' = Append(command_history, ":")
               /\ i' = i + 1
       /\ Fetch({"]"}) => objs' = objs]_vars

MeasuredSuperposition ==
    /\ last.cmd = ":"
    /\ last.measures = 1
    /\ ~ProbIsZero(last.prob)
    /\ ~ProbIsOne(last.prob)
    /\ objs[1] = objs[Top(state_history)]
    /\ command_history = <<"+", ":">>

\* C16: the snapshot a gate-class command appends is taken after the operation
\* is applied: right after every gate-class dispatch the last entry of State
\* History equals the current state; the program "+" on a fresh VM returns a
\* State History of exactly one snapshot, equal to the returned final state
\* (the state with the gate applied), and the Command History <<"+">>.
SnapshotAfterGate ==
    /\ (last.cmd \in GateClass)
          => (state_history # <<>> /\ objs[Top(state_history)] = objs[1])
    /\ (Returned /\ calls = 1 /\ code = <<"+">>)
          => /\ Len(state_history) = 1
             /\ objs[state_history[1]] = objs[1]
             /\ objs[1] = GateH(run.start.state, run.start.pointer)
             /\ objs[1] # run.start.state
             /\ command_history = <<"+">>

PlusReturnedOneSnapshot ==
    /\ Returned
    /\ calls = 1
    /\ code = <<"+">>
    /\ Len(state_history) = 1
    /\ objs[state_history[1]] # run.start.state

\* The operation a gate-class command c queues with the pointer at p: a gate on
\* target p, or for "@"/"C" a CNOT with control p.
QueuedBy(op, c, p) ==
    CASE c \in {".", "M"} -> op.gate = "Measurement" /\ op.target = p /\ op.control = -1
      [] c \in {"+", "H"} -> op.gate = "H" /\ op.target = p /\ op.control = -1
      [] c \in {"~", "T"} -> op.gate = "T" /\ op.target = p /\ op.control = -1
      [] c \in {"#", "N"} -> op.gate = "DepolarizingNoise" /\ op.target = p /\ op.control = -1
      [] c = "?" -> op.gate \in {"H", "T"} /\ op.target = p /\ op.control = -1
      [] c \in {"@", "C"} -> op.gate = "CNOT" /\ op.control = p /\ op.target \in 0 .. (num_qubits - 1)

\* C17: the Gate Buffer is flushed on every gate-class command: each gate-class
\* dispatch leaves the buffer empty and extends the merged gate log at its end
\* by exactly the one operation the command queued; the buffer is empty between
\* any two dispatches and at the end of parse; the merged log gains the
\* operations of a parse call in execution order, one per gate-class dispatch.
BufferFlushedEveryGate ==
    /\ [](circuit = <<>>)
    /\ [](Len(circuit_all) = Len(run.start.circuit_all) + run.gates)
    /\ [][/\ Fetch(GateClass)
               => /\ circuit' = <<>>
                  /\ Len(circuit_all') = Len(circuit_all) + 1
                  /\ SubSeq(circuit_all', 1, Len(circuit_all)) = circuit_all
                  /\ QueuedBy(circuit_all'[Len(circuit_all')], command, pointer)
          /\ ~Fetch(GateClass) => circuit_all' = circuit_all]_vars

TwoGatesMergedInOrder ==
    /\ Returned
    /\ calls = 1
    /\ code = <<"~", "@">>
    /\ num_qubits = 3
    /\ circuit = <<>>
    /\ circuit_all = <<Op("T", 0, -1), Op("CNOT", 1, 0)>>

\* C18: for every program without "*", at every point of the execution the loop
\* stack is strictly increasing from bottom to top, and each entry is the
\* position of a "[" of the program and is smaller than the current i; so no
\* position is held twice and the depth never exceeds the number of "[" in the
\* program.
LoopStackOrdered ==
    (Occurrences(code, "*") = 0)
        => /\ \A k \in 1 .. Len(loop_stack) :
                 /\ loop_stack[k] \in 0 .. (Len(code) - 1)
                 /\ code[loop_stack[k] + 1] = "["
                 /\ loop_stack[k] < i
           /\ \A j, k \in 1 .. Len(loop_stack) : j < k => loop_stack[j] < loop_stack[k]
           /\ Len(loop_stack) <= Occurrences(code, "[")

LoopStackKeptOverRepeat ==
    /\ pc = "loop"
    /\ Occurrences(code, "*") = 0
    /\ last.cmd = "]"
    /\ last.result = 1
    /\ loop_stack = <<0>>
    /\ i = 1
    /\ run.recognized = 3

LoopFree(prog) == Occurrences(prog, "]") = 0 /\ Occurrences(prog, "*") = 0

\* C19: a program containing neither "]" nor "*" terminates, whatever the
\* random draws: every iteration strictly increases i, so each position is
\* dispatched at most once, a call makes at most len(program) iterations, and
\* parse reaches i >= len(program) and returns.
LoopFreeTerminates ==
    /\ [][(pc = "loop" /\ LoopFree(code) /\ i < Len(code))
              => (pc' = "loop" /\ i' > i /\ run'.iterations = run.iterations + 1)]_vars
    /\ [](LoopFree(code) => run.iterations <= Len(code))
    /\ (pc = "loop" /\ LoopFree(code)) ~> (pc = "idle" /\ i >= Len(code))

LoopFreeReturned ==
    /\ Returned
    /\ LoopFree(code)
    /\ Len(code) = 2
    /\ run.iterations = 2
    /\ i = 2
    /\ Occurrences(code, "[") = 1

\* C20: nothing limits the steps of a call, and a loop can repeat for ever: on
\* a fresh VM in the default all-zero state the program "[]" gets result 1 from
\* measure() at every "]" (the probability it computes for result 0 is 0), so
\* every "]" repeats the loop, the state stays all-zero and parse never reaches
\* i >= len(program): the call does not return.
EmptyLoopNeverExits ==
    (calls = 1 /\ code = <<"[", "]">> /\ run.start.state = ZeroState(num_qubits))
        => /\ pc = "loop"
           /\ i < Len(code)
           /\ objs[1] = ZeroState(num_qubits)
           /\ last.cmd = "]"
                 => /\ last.measures = 1
                    /\ ProbIsZero(last.prob)
                    /\ last.result = 1
                    /\ loop_stack = <<0>>
                    /\ i = 1
           /\ Len(command_history) = run.iterations

EmptyLoopRepeatedTwice ==
    /\ calls = 1
    /\ code = <<"[", "]">>
    /\ run.start.state = ZeroState(num_qubits)
    /\ pc = "loop"
    /\ command_history = <<"[", "]", "]">>
    /\ last.result = 1
    /\ i = 1

====
